---- MODULE Spec2Model ----
(***************************************************************************)
(* Model of the MesmerGlass Android VR client native layer:                *)
(*   vr_renderer.cpp    - class VRRenderer, the global g_renderer and the   *)
(*                        JNI entry points                                  *)
(*   stereo_renderer.cpp - class StereoRenderer (per-eye viewports)         *)
(*   frame_decoder.cpp  - class FrameDecoder (decodeJPEG, setDimensions)    *)
(*                                                                         *)
(* Handles (native window references, EGL surfaces and contexts, the EGL   *)
(* display connection, GL programs, vertex arrays, buffers, textures) are  *)
(* indices into the sequence objs, which records for each object its kind, *)
(* its owner, how many release calls reached it, and (textures) the image  *)
(* it holds.  A handle value of 0 is nullptr / EGL_NO_* / GL name 0.       *)
(* Released objects that no handle refers to any more are dropped from     *)
(* objs when nativeOnDestroy returns.                                      *)
(***************************************************************************)
EXTENDS Integers, Sequences, FiniteSets, TLC

VARIABLES
    g_renderer,   \* static VRRenderer* g_renderer: 0 (nullptr) or 1 (allocated)
    obj,          \* the fields of *g_renderer
    objs,         \* the native/EGL/GL objects that are live or that a handle
                  \* still refers to
    dpyConn,      \* index in objs of the initialised EGL display connection, or 0
    current,      \* per thread: the EGL context and surface current on it
    frameCount,   \* static int frameCount of renderFrame
    screen,       \* what the last successful eglSwapBuffers put on the display
    glCalls,      \* graphics calls issued by the last entry point called, with
                  \* the thread that issued each
    lastCall,     \* name of the last entry point called
    lastLog,      \* last error (LOGE) the last call logged ("" if none)
    eglResult,    \* stage at which the last initializeEGL stopped
    lastInit,     \* what the last nativeOnSurfaceCreated did with initialize()
    delivered,    \* deliveries to the renderer since it last rendered a frame
                  \* or created its textures: how many (0, 1, or 2 for two or
                  \* more), and the latest
    orphaned,     \* kinds of objects that were live when their owner was released
    overReleased, \* kinds of objects a release call reached after their release
    relSeq,       \* kinds of the objects the last cleanup released, in order
    attachCount,  \* number of nativeOnSurfaceCreated calls that reached the renderer
    createCount,  \* number of nativeOnCreate calls
    sr,           \* StereoRenderer fields
    glViewport,   \* viewport last set by StereoRenderer::setupLeftEye/RightEye
    dec,          \* FrameDecoder fields
    decCall       \* the last decodeJPEG call: input, output buffer, return value

vars == <<g_renderer, obj, objs, dpyConn, current, frameCount, screen, glCalls,
          lastCall, lastLog, eglResult, lastInit, delivered,
          orphaned, overReleased, relSeq, attachCount, createCount, sr, glViewport, dec, decCall>>

rendererVars == <<g_renderer, obj, objs, dpyConn, current, frameCount, screen,
                  glCalls, lastCall, lastLog, eglResult, lastInit, delivered,
                  orphaned, overReleased, relSeq, attachCount, createCount>>

(***************************************************************************)
(* Bounds                                                                  *)
(***************************************************************************)
\* nativeOnCreate calls
MaxCreate == 1
\* nativeOnSurfaceCreated calls that reach a renderer
MaxAttach == 2
\* frames actually rendered
MaxFrames == 1
\* viewport widths 0..MaxW
MaxW == 4
\* viewport heights 0..MaxH
MaxH == 2
\* length of a compressed input
MaxJpegLen == 3

Threads == {"render", "net"}
RenderThread == "render"
Frames == {"A", "B"}
\* a delivery carries different images for the two eyes
FramePairs == {p \in [left : Frames, right : Frames] : p.left # p.right}
NoDelivery == [n |-> 0, left |-> "none", right |-> "none"]

(***************************************************************************)
(* Handles                                                                 *)
(***************************************************************************)
NULL == 0
EGL_NO_DISPLAY == 0
EGL_NO_SURFACE == 0
EGL_NO_CONTEXT == 0
\* the handle eglGetDisplay(EGL_DEFAULT_DISPLAY) returns when it succeeds
DisplayHandle == 1

NoCurrent == [ctx |-> EGL_NO_CONTEXT, surf |-> EGL_NO_SURFACE]

NewObj(kind, owner) == [kind |-> kind, owner |-> owner, rel |-> 0, data |-> "undefined"]

\* VRRenderer::VRRenderer()
VRRenderer_ctor ==
    [display |-> EGL_NO_DISPLAY, surface |-> EGL_NO_SURFACE, context |-> EGL_NO_CONTEXT,
     window |-> NULL, shaderProgram |-> 0, vao |-> 0, vbo |-> 0,
     leftEyeTexture |-> 0, rightEyeTexture |-> 0, currentEyeTexture |-> 0,
     viewportWidth |-> 0, viewportHeight |-> 0, renderTime |-> 0]


(***************************************************************************)
(* VRRenderer::initializeEGL.  fail names the EGL call that fails          *)
(* ("ok": none does).  os, dc, cur are objs, dpyConn, current before the   *)
(* call; t is the calling thread.                                          *)
(***************************************************************************)
EGLStages == {"getDisplay", "initialize", "chooseConfig", "createSurface",
              "createContext", "makeCurrent", "ok"}

EGLOut(r, os, dc, cur, log, ret) ==
    [obj |-> r, objs |-> os, dpyConn |-> dc, current |-> cur, log |-> log, ret |-> ret]

initializeEGL(self, nativeWindow, t, fail, os, dc, cur) ==
    LET r0 == [self EXCEPT !.window = nativeWindow] IN
    IF fail = "getDisplay"
    THEN EGLOut([r0 EXCEPT !.display = EGL_NO_DISPLAY], os, dc, cur,
                "Failed to get EGL display", FALSE)
    ELSE
    LET r1 == [r0 EXCEPT !.display = DisplayHandle] IN
    IF fail = "initialize"
    THEN EGLOut(r1, os, dc, cur, "Failed to initialize EGL", FALSE)
    ELSE
    \* eglInitialize on an initialised display returns the same connection
    LET os1 == IF dc = 0 THEN Append(os, NewObj("display", 0)) ELSE os
        dc1 == IF dc = 0 THEN Len(os1) ELSE dc
    IN
    IF fail = "chooseConfig"
    THEN EGLOut(r1, os1, dc1, cur, "Failed to choose EGL config", FALSE)
    ELSE
    IF fail = "createSurface"
    THEN EGLOut([r1 EXCEPT !.surface = EGL_NO_SURFACE], os1, dc1, cur,
                "Failed to create EGL surface", FALSE)
    ELSE
    LET os2 == Append(os1, NewObj("surface", dc1))
        r2 == [r1 EXCEPT !.surface = Len(os2)]
    IN
    IF fail = "createContext"
    THEN EGLOut([r2 EXCEPT !.context = EGL_NO_CONTEXT], os2, dc1, cur,
                "Failed to create EGL context", FALSE)
    ELSE
    LET os3 == Append(os2, NewObj("context", dc1))
        r3 == [r2 EXCEPT !.context = Len(os3)]
    IN
    IF fail = "makeCurrent"
    THEN EGLOut(r3, os3, dc1, cur, "Failed to make EGL context current", FALSE)
    ELSE EGLOut(r3, os3, dc1,
                [cur EXCEPT ![t] = [ctx |-> r3.context, surf |-> r3.surface]],
                "", TRUE)

(***************************************************************************)
(* VRRenderer::initialize (with createShaderProgram, compileShader and     *)
(* createTexture).  Without a context current on the calling thread        *)
(* glCreateShader returns 0, so compileShader returns 0 on both of its     *)
(* paths and createShaderProgram returns 0.  With a context current the    *)
(* two shaders, which are constants of the program, compile and link.      *)
(***************************************************************************)
createShaderProgram(ctx) == ctx # EGL_NO_CONTEXT

initialize(self, t, os, cur) ==
    LET ctx == cur[t].ctx IN
    IF ~createShaderProgram(ctx)
    THEN [obj |-> [self EXCEPT !.shaderProgram = 0], objs |-> os,
          log |-> "Failed to create shader program", ret |-> FALSE]
    ELSE
    LET n == Len(os)
        os1 == os \o <<NewObj("program", ctx), NewObj("vao", ctx), NewObj("vbo", ctx),
                       NewObj("texture", ctx), NewObj("texture", ctx)>>
    IN [obj |-> [self EXCEPT !.shaderProgram = n + 1, !.vao = n + 2, !.vbo = n + 3,
                             !.leftEyeTexture = n + 4, !.rightEyeTexture = n + 5],
        objs |-> os1, log |-> "", ret |-> TRUE]

(***************************************************************************)
(* VRRenderer::cleanup.  CleanupSteps lists the release calls cleanup      *)
(* makes, in source order, each under its guard; ApplyStep performs one.   *)
(* st = [objs, dpyConn, current, orphaned, overReleased, relSeq].          *)
(***************************************************************************)
Dependents(os, id) == {j \in 1..Len(os) : os[j].owner = id /\ os[j].rel = 0}

\* one release call reaches object id
Release(st, id) ==
    [st EXCEPT !.objs = [st.objs EXCEPT ![id].rel = @ + 1],
               !.orphaned = IF st.objs[id].rel = 0
                            THEN @ \cup {st.objs[j].kind : j \in Dependents(st.objs, id)}
                            ELSE @,
               !.overReleased = IF st.objs[id].rel = 0
                                THEN @ ELSE @ \cup {st.objs[id].kind},
               !.relSeq = Append(@, st.objs[id].kind)]

GLDeleteCalls == {"glDeleteVertexArrays", "glDeleteBuffers", "glDeleteTextures",
                  "glDeleteProgram"}

ApplyStep(st, step, t) ==
    IF step.call \in GLDeleteCalls
    THEN \* a GL name only denotes an object of the context current on t
         IF st.current[t].ctx # EGL_NO_CONTEXT
            /\ st.objs[step.h].owner = st.current[t].ctx
         THEN Release(st, step.h) ELSE st
    ELSE IF step.call = "eglMakeCurrent"
    THEN [st EXCEPT !.current = [@ EXCEPT ![t] = NoCurrent]]
    ELSE IF step.call = "eglTerminate"
    THEN \* terminating a display that is not initialised is allowed and does nothing
         IF st.dpyConn # 0
         THEN [Release(st, st.dpyConn) EXCEPT !.dpyConn = 0] ELSE st
    ELSE Release(st, step.h)   \* eglDestroyContext, eglDestroySurface, ANativeWindow_release

Step(call, h) == [call |-> call, h |-> h]

CleanupSteps(self) ==
    SelectSeq(<<Step("glDeleteVertexArrays", self.vao),
                Step("glDeleteBuffers", self.vbo),
                Step("glDeleteTextures", self.leftEyeTexture),
                Step("glDeleteTextures", self.rightEyeTexture),
                Step("glDeleteProgram", self.shaderProgram)>>,
              LAMBDA s : s.h # 0)
    \o (IF self.display # EGL_NO_DISPLAY
        THEN <<Step("eglMakeCurrent", self.display)>>
             \o (IF self.context # EGL_NO_CONTEXT
                 THEN <<Step("eglDestroyContext", self.context)>> ELSE <<>>)
             \o (IF self.surface # EGL_NO_SURFACE
                 THEN <<Step("eglDestroySurface", self.surface)>> ELSE <<>>)
             \o <<Step("eglTerminate", self.display)>>
        ELSE <<>>)
    \o (IF self.window # NULL
        THEN <<Step("ANativeWindow_release", self.window)>> ELSE <<>>)

RECURSIVE RunSteps(_, _, _)
RunSteps(st, steps, t) ==
    IF steps = <<>> THEN st
    ELSE CHOOSE r \in {RunSteps(s1, Tail(steps), t) :
                         s1 \in {ApplyStep(s0, Head(steps), t) : s0 \in {st}}} : TRUE

cleanup(self, t, os, dc, cur, orph, over) ==
    CHOOSE r \in {RunSteps(st, steps, t) :
                    st \in {[objs |-> os, dpyConn |-> dc, current |-> cur,
                             orphaned |-> orph, overReleased |-> over, relSeq |-> <<>>]},
                    steps \in {CleanupSteps(self)}} : TRUE

(***************************************************************************)
(* Dropping the released objects no handle refers to.  Kept objects are    *)
(* renumbered in order, and so are the handles that refer to them.         *)
(***************************************************************************)
HandleFields == {"surface", "context", "window", "shaderProgram", "vao", "vbo",
                 "leftEyeTexture", "rightEyeTexture", "currentEyeTexture"}

Referenced(self, dc, cur) ==
    {self[f] : f \in HandleFields} \cup {dc}
    \cup {cur[t].ctx : t \in Threads} \cup {cur[t].surf : t \in Threads}

Kept(os, refs) == {i \in 1..Len(os) : os[i].rel = 0 \/ i \in refs}

NewIndex(keep, i) == IF i \in keep THEN Cardinality({j \in keep : j <= i}) ELSE 0

CompactTo(self, os, dc, cur, keep) ==
    [obj |-> [f \in DOMAIN self |->
                 IF f \in HandleFields THEN NewIndex(keep, self[f]) ELSE self[f]],
     objs |-> SelectSeq([i \in 1..Len(os) |->
                            [os[i] EXCEPT !.owner = NewIndex(keep, @),
                                          !.rel = IF i \in keep THEN @ ELSE -1]],
                        LAMBDA o : o.rel # -1),
     dpyConn |-> NewIndex(keep, dc),
     current |-> [t \in Threads |-> [ctx |-> NewIndex(keep, cur[t].ctx),
                                     surf |-> NewIndex(keep, cur[t].surf)]]]

Compact(self, os, dc, cur) ==
    CHOOSE r \in {CompactTo(self, os, dc, cur, keep) :
                    keep \in {Kept(os, Referenced(self, dc, cur))}} : TRUE

(***************************************************************************)
(* VRRenderer::renderFrame.  swapOk: eglSwapBuffers can succeed; it fails  *)
(* anyway (EGL_BAD_SURFACE) when the surface is not bound to the context   *)
(* current on the calling thread.  renderTime counts steps of 0.016.       *)
(***************************************************************************)
Op(t, op, arg) == [thread |-> t, op |-> op, arg |-> arg]
Rect(x, y, w, h) == [x |-> x, y |-> y, w |-> w, h |-> h]

RenderValid(self) ==
    /\ self.window # NULL
    /\ self.display # EGL_NO_DISPLAY
    /\ self.surface # EGL_NO_SURFACE
    /\ self.context # EGL_NO_CONTEXT

Magenta == [left |-> "magenta", right |-> "magenta"]

\* renderFrame without its two early returns
renderFrame_unguarded(self, t, swapOk, cur, scr) ==
    LET swapped == swapOk /\ cur[t].surf = self.surface IN
    [obj |-> [self EXCEPT !.renderTime = @ + 1],
     ops |-> <<Op(t, "glClear", "color|depth"), Op(t, "eglSwapBuffers", self.surface)>>,
     screen |-> IF swapped THEN Magenta ELSE scr,
     log |-> IF swapped THEN "" ELSE "eglSwapBuffers failed!",
     rendered |-> TRUE]

renderFrame(self, t, swapOk, cur, scr) ==
    IF self.window = NULL
    THEN [obj |-> self, ops |-> <<>>, screen |-> scr, log |-> "renderFrame: No window!",
          rendered |-> FALSE]
    ELSE IF ~RenderValid(self)
    THEN [obj |-> self, ops |-> <<>>, screen |-> scr, log |-> "renderFrame: Invalid EGL state!",
          rendered |-> FALSE]
    ELSE
    LET swapped == swapOk /\ cur[t].surf = self.surface IN
    [obj |-> [self EXCEPT !.renderTime = @ + 1],
     ops |-> <<Op(t, "glClear", "color|depth"), Op(t, "eglSwapBuffers", self.surface)>>,
     screen |-> IF swapped THEN Magenta ELSE scr,
     log |-> IF swapped THEN "" ELSE "eglSwapBuffers failed!",
     rendered |-> TRUE]

\* VRRenderer::renderEye: the calls it makes (no caller in the source)
renderEye(t, eyeTexture, x, y, width, height) ==
    <<Op(t, "glViewport", Rect(x, y, width, height)),
      Op(t, "glBindTexture", eyeTexture),
      Op(t, "glDrawArrays", 3)>>

(***************************************************************************)
(* VRRenderer::updateTexture.  The received bytes are not read: a          *)
(* generated test pattern is uploaded to both eye textures.  The upload    *)
(* reaches a texture only if the texture belongs to the context current on *)
(* the calling thread.                                                     *)
(***************************************************************************)
TestPattern == "testPattern"

glTexImage2D(os, cur, t, tex, image) ==
    IF tex # 0 /\ cur[t].ctx # EGL_NO_CONTEXT /\ os[tex].owner = cur[t].ctx /\ os[tex].rel = 0
    THEN [os EXCEPT ![tex].data = image]
    ELSE os

updateTexture(self, t, leftData, rightData, os, cur) ==
    LET os1 == glTexImage2D(os, cur, t, self.leftEyeTexture, TestPattern)
        os2 == glTexImage2D(os1, cur, t, self.rightEyeTexture, TestPattern)
    IN [objs |-> os2,
        ops |-> <<Op(t, "glTexImage2D", self.leftEyeTexture),
                  Op(t, "glTexImage2D", self.rightEyeTexture)>>,
        log |-> ""]

(***************************************************************************)
(* JNI entry points.  The lifecycle callbacks and nativeOnDrawFrame run on *)
(* the render thread; nativeUpdateTexture runs on the thread that          *)
(* delivers the frame.                                                     *)
(***************************************************************************)
Init ==
    /\ g_renderer = NULL
    /\ obj = VRRenderer_ctor
    /\ objs = <<>>
    /\ dpyConn = 0
    /\ current = [t \in Threads |-> NoCurrent]
    /\ frameCount = 0
    /\ screen = [left |-> "blank", right |-> "blank"]
    /\ glCalls = <<>>
    /\ lastCall = "none"
    /\ lastLog = ""
    /\ eglResult = "none"
    /\ lastInit = "none"
    /\ delivered = NoDelivery
    /\ orphaned = {}
    /\ overReleased = {}
    /\ relSeq = <<>>
    /\ attachCount = 0
    /\ createCount = 0
    /\ sr = [viewportWidth |-> 0, viewportHeight |-> 0]
    /\ glViewport = Rect(0, 0, 0, 0)
    /\ dec = [width |-> 1024, height |-> 1024]
    /\ decCall = [called |-> FALSE, jpeg |-> <<>>, ret |-> FALSE, written |-> FALSE]

otherVars == <<sr, glViewport, dec, decCall>>

\* the renderer exists, its last initializeEGL and initialize both succeeded
Ready == g_renderer # NULL /\ eglResult = "ok" /\ lastInit = "ok"

nativeOnCreate ==
    /\ createCount < MaxCreate
    /\ createCount' = createCount + 1
    /\ g_renderer' = 1
    /\ obj' = VRRenderer_ctor
    /\ lastCall' = "nativeOnCreate"
    /\ lastLog' = ""
    /\ eglResult' = "none"
    /\ lastInit' = "none"
    /\ glCalls' = <<>>
    /\ delivered' = NoDelivery
    /\ UNCHANGED <<objs, dpyConn, current, frameCount, screen, orphaned, overReleased, relSeq,
                   attachCount>>
    /\ UNCHANGED otherVars

\* nativeOnDestroy without "g_renderer = nullptr"
DestroyedPointer_dangling(p) == p

\* what nativeOnDestroy leaves in g_renderer
DestroyedPointer(p) == NULL

nativeOnDestroy ==
    /\ lastCall' = "nativeOnDestroy"
    /\ lastLog' = ""
    /\ glCalls' = <<>>
    /\ IF g_renderer # NULL
       THEN \E c \in {cleanup(obj, RenderThread, objs, dpyConn, current, orphaned,
                                overReleased)},
               \* delete g_renderer; g_renderer = nullptr
               p \in {DestroyedPointer(g_renderer)} :
            \E k \in {Compact(IF p = NULL THEN VRRenderer_ctor ELSE obj,
                               c.objs, c.dpyConn, c.current)} :
            /\ g_renderer' = p
            /\ obj' = k.obj
            /\ objs' = k.objs
            /\ dpyConn' = k.dpyConn
            /\ current' = k.current
            /\ orphaned' = c.orphaned
            /\ overReleased' = c.overReleased
            /\ relSeq' = c.relSeq
            /\ eglResult' = "none"
            /\ lastInit' = "none"
            /\ delivered' = NoDelivery
       ELSE /\ relSeq' = <<>>
            /\ UNCHANGED <<objs, dpyConn, current, orphaned, overReleased, g_renderer, obj,
                           eglResult, lastInit, delivered>>
    /\ UNCHANGED <<frameCount, screen, attachCount, createCount>>
    /\ UNCHANGED otherVars

nativeOnSurfaceCreated(fail) ==
    /\ lastCall' = "nativeOnSurfaceCreated"
    /\ glCalls' = <<>>
    /\ IF g_renderer # NULL
       THEN /\ attachCount < MaxAttach
            /\ attachCount' = attachCount + 1
            /\ \E \* ANativeWindow_fromSurface acquires a reference on the window
                  os0 \in {Append(objs, NewObj("window", 0))} :
               \E e \in {initializeEGL(obj, Len(os0), RenderThread, fail, os0, dpyConn,
                                        current)} :
               \E i \in {initialize(e.obj, RenderThread, e.objs, e.current)} :
                  /\ obj' = i.obj
                  /\ objs' = i.objs
                  /\ dpyConn' = e.dpyConn
                  /\ current' = e.current
                  /\ eglResult' = fail
                  /\ lastInit' = IF i.ret THEN "ok" ELSE "failed"
                  /\ lastLog' = IF i.log # "" THEN i.log ELSE e.log
                  /\ delivered' = NoDelivery
       ELSE /\ fail = "ok"
            /\ lastLog' = ""
            /\ UNCHANGED <<obj, objs, dpyConn, current, eglResult, lastInit, attachCount,
                           delivered>>
    /\ UNCHANGED <<g_renderer, frameCount, screen, orphaned, overReleased, relSeq, createCount>>
    /\ UNCHANGED otherVars

\* VRRenderer::setViewport
setViewport(self, width, height) ==
    [self EXCEPT !.viewportWidth = width, !.viewportHeight = height]

nativeOnSurfaceChanged(width, height) ==
    /\ lastCall' = "nativeOnSurfaceChanged"
    /\ lastLog' = ""
    /\ glCalls' = <<>>
    /\ obj' = IF g_renderer # NULL THEN setViewport(obj, width, height) ELSE obj
    /\ UNCHANGED <<g_renderer, objs, dpyConn, current, frameCount, screen, eglResult,
                   lastInit, delivered, orphaned, overReleased, relSeq, attachCount, createCount>>
    /\ UNCHANGED otherVars

nativeOnDrawFrame(swapOk) ==
    /\ lastCall' = "nativeOnDrawFrame"
    /\ IF g_renderer # NULL
       THEN \E f \in {renderFrame(obj, RenderThread, swapOk, current, screen)} :
            /\ f.rendered => frameCount < MaxFrames
            /\ obj' = f.obj
            /\ glCalls' = f.ops
            /\ screen' = f.screen
            /\ lastLog' = f.log
            /\ frameCount' = IF f.rendered THEN frameCount + 1 ELSE frameCount
            /\ delivered' = IF f.rendered THEN NoDelivery ELSE delivered
       ELSE /\ swapOk
            /\ glCalls' = <<>>
            /\ lastLog' = ""
            /\ UNCHANGED <<obj, screen, frameCount, delivered>>
    /\ UNCHANGED <<g_renderer, objs, dpyConn, current, eglResult, lastInit,
                   orphaned, overReleased, relSeq, attachCount, createCount>>
    /\ UNCHANGED otherVars

nativeUpdateTexture(t, leftData, rightData) ==
    /\ lastCall' = "nativeUpdateTexture"
    /\ IF g_renderer # NULL
       THEN \E u \in {updateTexture(obj, t, leftData, rightData, objs, current)} :
            /\ objs' = u.objs
            /\ glCalls' = u.ops
            /\ lastLog' = u.log
            /\ delivered' = [n |-> IF delivered.n = 0 THEN 1 ELSE 2,
                              left |-> leftData, right |-> rightData]
       ELSE /\ lastLog' = ""
            /\ glCalls' = <<>>
            /\ UNCHANGED <<objs, delivered>>
    /\ UNCHANGED <<g_renderer, obj, dpyConn, current, frameCount, screen, eglResult,
                   lastInit, orphaned, overReleased, relSeq, attachCount, createCount>>
    /\ UNCHANGED otherVars

Next ==
    \/ nativeOnCreate
    \/ nativeOnDestroy
    \/ \E fail \in EGLStages : nativeOnSurfaceCreated(fail)
    \/ nativeOnSurfaceChanged(MaxW, MaxH)
    \/ \E swapOk \in BOOLEAN : nativeOnDrawFrame(swapOk)
    \/ \E t \in Threads, p \in FramePairs : nativeUpdateTexture(t, p.left, p.right)

Spec == Init /\ [][Next]_vars

(***************************************************************************)
(* StereoRenderer (stereo_renderer.cpp).  width / 2 is C integer division; *)
(* the widths are non-negative here, so it is \div.                        *)
(***************************************************************************)
StereoRenderer_setViewport(width, height) ==
    /\ sr' = [viewportWidth |-> width, viewportHeight |-> height]
    /\ UNCHANGED <<glViewport, dec, decCall>>
    /\ UNCHANGED rendererVars

\* the arguments setupLeftEye passes to glViewport
LeftEyeRect(self) == Rect(0, 0, self.viewportWidth \div 2, self.viewportHeight)

\* the arguments setupRightEye passes to glViewport
RightEyeRect(self) ==
    Rect(self.viewportWidth \div 2, 0, self.viewportWidth \div 2, self.viewportHeight)

setupLeftEye ==
    /\ glViewport' = LeftEyeRect(sr)
    /\ UNCHANGED <<sr, dec, decCall>>
    /\ UNCHANGED rendererVars

setupRightEye ==
    /\ glViewport' = RightEyeRect(sr)
    /\ UNCHANGED <<sr, dec, decCall>>
    /\ UNCHANGED rendererVars

NextStereo ==
    \/ \E w \in 0..MaxW, h \in 0..MaxH : StereoRenderer_setViewport(w, h)
    \/ setupLeftEye
    \/ setupRightEye

SpecStereo == Init /\ [][NextStereo]_vars

(***************************************************************************)
(* FrameDecoder (frame_decoder.cpp).  A compressed input is a sequence of  *)
(* bytes, of which the model distinguishes the start-of-image marker, the  *)
(* end-of-image marker and any other byte.  decodeJPEG reads neither the   *)
(* input nor its size, writes nothing to outRGB and returns true.          *)
(***************************************************************************)
JpegBytes == {"SOI", "EOI", "x"}
JpegInputs == UNION {[1..n -> JpegBytes] : n \in 0..MaxJpegLen}
DecoderDims == {1, 2}

decodeJPEG(jpegData) ==
    /\ decCall' = [called |-> TRUE, jpeg |-> jpegData, ret |-> TRUE, written |-> FALSE]
    /\ UNCHANGED <<dec, sr, glViewport>>
    /\ UNCHANGED rendererVars

setDimensions(w, h) ==
    /\ dec' = [width |-> w, height |-> h]
    /\ UNCHANGED <<decCall, sr, glViewport>>
    /\ UNCHANGED rendererVars

NextDecoder ==
    \/ \E jpegData \in JpegInputs : decodeJPEG(jpegData)
    \/ \E w \in DecoderDims, h \in DecoderDims : setDimensions(w, h)

SpecDecoder == Init /\ [][NextDecoder]_vars

(***************************************************************************)
(* Properties                                                              *)
(***************************************************************************)
\* the frame the documented draw pass issues on thread t
StereoFrame(self, t) ==
    LET W == self.viewportWidth
        H == self.viewportHeight
    IN <<Op(t, "glClear", "color|depth")>>
       \o renderEye(t, self.leftEyeTexture, 0, 0, W \div 2, H)
       \o renderEye(t, self.rightEyeTexture, W \div 2, 0, W - (W \div 2), H)
       \o <<Op(t, "eglSwapBuffers", self.surface)>>

\* C1: a renderFrame() in a valid rendering state (window, display, surface
\* and context all live) issues exactly: one clear, then for LEFT and for
\* RIGHT a viewport set to the eye's half, a bind of the eye's texture and a
\* draw, then one present.
C1_RenderSequence ==
    (lastCall = "nativeOnDrawFrame" /\ g_renderer # NULL /\ RenderValid(obj))
        => glCalls = StereoFrame(obj, RenderThread)

\* columns a viewport rectangle covers
Columns(r) == {x \in 0..(2 * MaxW + 2) : r.x <= x /\ x < r.x + r.w}

\* C2: for every viewport width W > 0 the left-eye rectangle is [0, W/2)
\* of width W/2, the right-eye rectangle starts at W/2 and has width
\* W - W/2; the two are disjoint, their union is exactly [0, W), and the
\* height is unchanged.
C2_ViewportSplit ==
    sr.viewportWidth > 0 =>
        LET W == sr.viewportWidth
            L == LeftEyeRect(sr)
            R == RightEyeRect(sr)
        IN /\ L.x = 0 /\ L.w = W \div 2
           /\ R.x = W \div 2 /\ R.w = W - (W \div 2)
           /\ Columns(L) \cap Columns(R) = {}
           /\ Columns(L) \cup Columns(R) = 0..(W - 1)
           /\ L.h = sr.viewportHeight /\ R.h = sr.viewportHeight

\* C3: while no nativeOnSurfaceCreated has reached a renderer, a
\* nativeOnDrawFrame issues no graphics call (no clear, no draw, no present),
\* changes neither the render time nor any other state of the session, and
\* its renderFrame() logs an error.
C3_RenderBeforeAttach ==
    [][(lastCall' = "nativeOnDrawFrame" /\ attachCount = 0)
         => /\ glCalls' = <<>>
            /\ obj' = obj
            /\ UNCHANGED <<g_renderer, objs, dpyConn, current, frameCount, screen>>
            /\ (g_renderer # NULL => lastLog' = "renderFrame: No window!")]_vars

C3_Witness ==
    /\ lastCall = "nativeOnDrawFrame"
    /\ attachCount = 0
    /\ g_renderer # NULL
    /\ lastLog = "renderFrame: No window!"
    /\ obj.viewportWidth > 0

\* C4: after an initializeEGL that failed at any step, no component is
\* initialised (initialize() sets up no shader, geometry or texture) and a
\* renderFrame() issues no graphics call (no clear, no present).
C4_FailedAttachStaysUninitialized ==
    (g_renderer # NULL /\ eglResult \notin {"none", "ok"})
        => /\ lastInit # "ok"
           /\ (lastCall = "nativeOnDrawFrame" => glCalls = <<>>)

\* every handle field of the renderer is null
Uninitialized(self) ==
    /\ self.window = NULL /\ self.display = EGL_NO_DISPLAY
    /\ self.surface = EGL_NO_SURFACE /\ self.context = EGL_NO_CONTEXT
    /\ self.shaderProgram = 0 /\ self.vao = 0 /\ self.vbo = 0
    /\ self.leftEyeTexture = 0 /\ self.rightEyeTexture = 0

\* C5: no object (GL object, EGL context, surface, display connection,
\* native window) is ever reached by more than one release call, and a
\* nativeOnDestroy that directly follows a nativeOnDestroy, or that finds
\* the renderer absent or uninitialised, releases nothing.
C5_TeardownIdempotent ==
    [][/\ overReleased' = {}
       /\ \A i \in 1..Len(objs') : objs'[i].rel <= 1
       /\ (lastCall' = "nativeOnDestroy"
           /\ (lastCall = "nativeOnDestroy" \/ g_renderer = NULL \/ Uninitialized(obj)))
          => /\ relSeq' = <<>>
             /\ UNCHANGED <<objs, dpyConn, current, orphaned, overReleased>>]_vars

C5_Witness ==
    /\ lastCall = "nativeOnDestroy"
    /\ g_renderer = NULL
    /\ relSeq = <<>>
    /\ attachCount > 0
    /\ lastInit = "none"
    /\ objs = <<>>

\* position of a kind of object in the documented release order
ReleaseRank(kind) ==
    CASE kind = "context" -> 2
      [] kind = "surface" -> 3
      [] kind = "display" -> 4
      [] kind = "window" -> 5
      [] OTHER -> 1

\* C6: teardown releases the GL objects before the context, the context
\* before the surface and the surface before the display connection, and no
\* owner is released while one of its dependents is still live.
C6_DependentsBeforeOwners ==
    /\ \A i, j \in 1..Len(relSeq) :
          i < j => ReleaseRank(relSeq[i]) <= ReleaseRank(relSeq[j])
    /\ orphaned = {}

\* C7: when two or more frames were delivered for an eye to a fully
\* initialised renderer since its last rendered frame, the next rendered
\* frame that is presented shows the latest of them for that eye.
C7_LatestWins ==
    [][(frameCount' = frameCount + 1 /\ lastLog' = "" /\ Ready /\ delivered.n >= 2)
         => (screen'.left = delivered.left /\ screen'.right = delivered.right)]_vars

\* the thread on which the renderer's context is current ("none" if on none)
Holder(cur, ctx) ==
    IF ctx # EGL_NO_CONTEXT /\ \E t \in Threads : cur[t].ctx = ctx
    THEN CHOOSE t \in Threads : cur[t].ctx = ctx
    ELSE "none"

\* C8: after a delivery of image L for LEFT and R for RIGHT to a fully
\* initialised renderer, made on the thread that holds the context, the
\* LEFT texture holds exactly L and the RIGHT texture exactly R.
C8_NoCrossEye ==
    (/\ lastCall = "nativeUpdateTexture"
     /\ Ready
     /\ delivered.n > 0
     /\ glCalls # <<>>
     /\ glCalls[1].thread = Holder(current, obj.context))
        => /\ objs[obj.leftEyeTexture].data = delivered.left
           /\ objs[obj.rightEyeTexture].data = delivered.right

\* a compressed image that starts with the start marker and ends with the
\* end marker; anything else is empty or truncated
IsCompleteJPEG(j) == Len(j) >= 2 /\ j[1] = "SOI" /\ j[Len(j)] = "EOI"

\* C9: decodeJPEG on an empty or truncated input returns failure and leaves
\* the output buffer unmodified.
C9_DecodeRejectsBadInput ==
    (decCall.called /\ ~IsCompleteJPEG(decCall.jpeg))
        => (decCall.ret = FALSE /\ ~decCall.written)

\* C10: every graphics call on a fully initialised renderer is issued by
\* the thread on which the renderer's context is current; a delivery on
\* another thread issues no texture upload itself.
C10_SingleGraphicsThread ==
    (Ready /\ Holder(current, obj.context) # "none")
        => \A i \in 1..Len(glCalls) : glCalls[i].thread = Holder(current, obj.context)

\* kinds of objects a nativeOnSurfaceCreated acquires: the native window
\* reference and the EGL display connection, surface and context
AttachKinds == {"window", "display", "surface", "context"}

\* C11: every native window reference and EGL display connection, surface
\* and context acquired by a nativeOnSurfaceCreated is reached by at most one
\* release call, is still held in its handle while it is live (no later
\* nativeOnSurfaceCreated or nativeOnCreate overwrote the handle without
\* releasing it), and has been released once nativeOnDestroy has returned.
C11_HandlesReleasedExactlyOnce ==
    \A i \in 1..Len(objs) :
        objs[i].kind \in AttachKinds =>
            /\ objs[i].rel <= 1
            /\ (objs[i].rel = 0 =>
                    /\ g_renderer # NULL
                    /\ i \in {obj.window, obj.surface, obj.context, dpyConn})
            /\ (lastCall = "nativeOnDestroy" => objs[i].rel = 1)

====
